---- MODULE Spec2Model ----
(***************************************************************************)
(* Model of src/hex.rs: conversion between binary and hex strings.         *)
(*                                                                         *)
(* A String / &str is modelled as the sequence of its characters (Unicode  *)
(* code points).  Rust stores it as UTF-8, and from_hex measures and       *)
(* slices it by BYTE offset, so Utf8 gives the byte image and every slice  *)
(* is checked against the bounds and the character boundaries of that      *)
(* image, as the str indexing operator does (it panics otherwise).         *)
(* A slice element of to_hex (T: LowerHex) is modelled by the unsigned     *)
(* value of its bit pattern, which is what LowerHex prints.                *)
(***************************************************************************)
EXTENDS Integers, Sequences, FiniteSets, TLC

\* ------------------------------------------------------------------ bounds
MaxTextLen == 4      \* longest free-form text handed to from_hex
MaxCoreLen == 3      \* longest digit string inside a padded / prefixed text
MaxPad == 2          \* most whitespace characters on either side of it
MaxBytesLen == 3     \* longest slice handed to to_hex
MaxArrayLen == 2     \* most vectors handed to to_hex_multiple
MaxInnerLen == 2     \* longest vector inside that array

\* ------------------------------------------------------- program constants
U8Max == 255         \* the element type of the decoded vector is u8
Radix == 16          \* from_str_radix(.., 16)

\* --------------------------------------------------------------- alphabets
\* '0' 'f' 'A' 'x' '+' ' ' U+00A0 (no-break space) U+00E9 (2 bytes)
\* U+20AC (3 bytes) U+1F596 (4 bytes)
Alphabet == {48, 102, 65, 120, 43, 32, 160, 233, 8364, 128406}
\* '0' 'a' 'F'
HexAlphabet == {48, 97, 70}
\* ' ' '\t'
PadAlphabet == {32, 9}
\* element values handed to to_hex; the last three do not fit in 8 bits
ElemSample == {0, 9, 10, 15, 16, 128, 255, 256, 4095, 65535}
\* byte values inside the vectors handed to to_hex_multiple
InnerSample == {10, 255}

SeqsUpTo(S, n) == UNION {[1..k -> S] : k \in 0..n}

\* ------------------------------------------------------------ str as UTF-8
\* The UTF-8 image of one character.
Utf8Char(c) ==
    IF c < 128 THEN <<c>>
    ELSE IF c < 2048 THEN <<192 + (c \div 64), 128 + (c % 64)>>
    ELSE IF c < 65536
         THEN <<224 + (c \div 4096), 128 + ((c \div 64) % 64), 128 + (c % 64)>>
    ELSE <<240 + (c \div 262144), 128 + ((c \div 4096) % 64),
           128 + ((c \div 64) % 64), 128 + (c % 64)>>

RECURSIVE Utf8(_)
Utf8(str) == IF str = <<>> THEN <<>> ELSE Utf8Char(Head(str)) \o Utf8(Tail(str))

\* str::len: the length in bytes.
str_len(str) == Len(Utf8(str))

\* str::is_ascii: every byte is below 128.
is_ascii(str) == \A i \in 1..Len(Utf8(str)) : Utf8(str)[i] < 128

\* char::is_whitespace: the Unicode White_Space property.
is_whitespace(c) ==
    \/ c \in 9..13
    \/ c \in {32, 133, 160, 5760}
    \/ c \in 8192..8202
    \/ c \in {8232, 8233, 8239, 8287, 12288}

RECURSIVE trim_start(_)
trim_start(str) ==
    IF str # <<>> /\ is_whitespace(Head(str)) THEN trim_start(Tail(str)) ELSE str

RECURSIVE trim_end(_)
trim_end(str) ==
    IF str # <<>> /\ is_whitespace(str[Len(str)])
    THEN trim_end(SubSeq(str, 1, Len(str) - 1))
    ELSE str

\* A plausible slip: only the leading whitespace is removed.
trim_start_only(str) == trim_start(str)

\* str::trim: leading and trailing whitespace removed.
trim(str) == trim_end(trim_start(str))

\* str::is_char_boundary on the byte image: 0, len, or a byte that is not a
\* continuation byte (10xxxxxx).
is_char_boundary(b, i) ==
    \/ i = 0
    \/ i = Len(b)
    \/ (i > 0 /\ i < Len(b) /\ ~(b[i + 1] \in 128..191))

\* The condition under which &s[from..to] does not panic.
slice_ok(b, from, to) ==
    from <= to /\ is_char_boundary(b, from) /\ is_char_boundary(b, to)

\* &s[from..to] on the byte image (0-based, half open).
slice(b, from, to) == SubSeq(b, from + 1, to)

\* ----------------------------------------------------------------- to_hex
\* A plausible slip: "{:02X}", the uppercase digits.
upper_digit(d) == IF d < 10 THEN 48 + d ELSE 55 + d

\* One lowercase hexadecimal digit character.
lower_digit(d) == IF d < 10 THEN 48 + d ELSE 87 + d

RECURSIVE lower_hex(_)
\* LowerHex: the digits of v in base 16, no padding.
lower_hex(v) ==
    IF v < Radix THEN <<lower_digit(v)>>
    ELSE Append(lower_hex(v \div Radix), lower_digit(v % Radix))

\* A plausible slip: "{:x}" instead of "{:02x}".
fmt_02x_unpadded(v) == lower_hex(v)

\* write!(&mut s, "{:02x}", byte): zero-padded to a MINIMUM width of 2.
fmt_02x(v) == IF Len(lower_hex(v)) < 2 THEN <<48>> \o lower_hex(v) ELSE lower_hex(v)

RECURSIVE to_hex(_)
to_hex(bytes) ==
    IF bytes = <<>> THEN <<>>
    ELSE fmt_02x(Head(bytes)) \o to_hex(Tail(bytes))

RECURSIVE to_hex_multiple_rev(_)
\* A plausible slip: the results are collected in reverse order.
to_hex_multiple_rev(bytearray) ==
    IF bytearray = <<>> THEN <<>>
    ELSE Append(to_hex_multiple_rev(Tail(bytearray)), to_hex(Head(bytearray)))

RECURSIVE to_hex_multiple(_)
to_hex_multiple(bytearray) ==
    IF bytearray = <<>> THEN <<>>
    ELSE <<to_hex(Head(bytearray))>> \o to_hex_multiple(Tail(bytearray))

\* --------------------------------------------------------------- from_hex
\* A plausible slip: only the lowercase letters are digits.
to_digit_lower_only(c) ==
    IF c \in 48..57 THEN c - 48
    ELSE IF c \in 97..102 THEN c - 87
    ELSE -1

\* char::to_digit(16); -1 stands for None.
to_digit(c) ==
    IF c \in 48..57 THEN c - 48
    ELSE IF c \in 97..102 THEN c - 87
    ELSE IF c \in 65..70 THEN c - 55
    ELSE -1

ParseOk(v) == [ok |-> TRUE, val |-> v, kind |-> "none"]
ParseErr(k) == [ok |-> FALSE, val |-> 0, kind |-> k]

RECURSIVE accumulate(_, _)
\* The digit loop of from_str_radix, with the checked multiply and add.
accumulate(digits, acc) ==
    IF digits = <<>> THEN ParseOk(acc)
    ELSE IF to_digit(Head(digits)) < 0 THEN ParseErr("InvalidDigit")
    ELSE IF acc * Radix + to_digit(Head(digits)) > U8Max THEN ParseErr("PosOverflow")
    ELSE accumulate(Tail(digits), acc * Radix + to_digit(Head(digits)))

\* u8::from_str_radix(src, 16): an empty string is an error, a lone sign is
\* an error, a leading '+' is skipped (u8 is unsigned, so '-' is not), and
\* what follows must be digits.
from_str_radix(src) ==
    IF src = <<>> THEN ParseErr("Empty")
    ELSE IF Len(src) = 1 /\ Head(src) \in {43, 45} THEN ParseErr("InvalidDigit")
    ELSE IF Head(src) = 43 THEN accumulate(Tail(src), 0)
    ELSE accumulate(src, 0)

Ok(v) == [tag |-> "Ok", val |-> v, cause |-> "none"]
Err(e, c) == [tag |-> e, val |-> <<>>, cause |-> c]
Panic == [tag |-> "Panic", val |-> <<>>, cause |-> "none"]

RECURSIVE decode_pairs(_, _, _)
\* for i in 0..num_bytes { result[i] = from_str_radix(&hex_trim[2i..2(i+1)])? }
decode_pairs(b, i, result) ==
    IF i >= Len(b) \div 2 THEN Ok(result)
    ELSE IF ~slice_ok(b, 2 * i, 2 * (i + 1)) THEN Panic
    ELSE LET parsed == from_str_radix(slice(b, 2 * i, 2 * (i + 1)))
         IN  IF ~parsed.ok THEN Err("InvalidCharacter", parsed.kind)
             ELSE decode_pairs(b, i + 1, Append(result, parsed.val))

\* The prefix test and strip of from_hex, on the byte image of hex_trim.
strip_prefix(b) ==
    IF Len(b) >= 2 /\ ~slice_ok(b, 0, 2) THEN Panic
    ELSE IF Len(b) >= 2 /\ slice(b, 0, 2) = <<48, 120>>
         THEN (IF slice_ok(b, 2, Len(b)) THEN Ok(slice(b, 2, Len(b))) ELSE Panic)
    ELSE Ok(b)

\* A plausible slip: the is_ascii guard is left out.
from_hex_unguarded(hex_str) ==
    IF str_len(trim(hex_str)) % 2 = 1 THEN Err("LengthError", "none")
    ELSE LET hex_trim == strip_prefix(Utf8(trim(hex_str)))
         IN  IF hex_trim.tag = "Panic" THEN Panic
             ELSE decode_pairs(hex_trim.val, 0, <<>>)

\* A plausible slip: the is_ascii guard comes before the length check.
from_hex_ascii_first(hex_str) ==
    IF ~is_ascii(hex_str) THEN Err("HexConversionError", "none")
    ELSE IF str_len(trim(hex_str)) % 2 = 1 THEN Err("LengthError", "none")
    ELSE LET hex_trim == strip_prefix(Utf8(trim(hex_str)))
         IN  IF hex_trim.tag = "Panic" THEN Panic
             ELSE decode_pairs(hex_trim.val, 0, <<>>)

\* A plausible slip: the is_ascii guard looks at the trimmed text.
from_hex_ascii_trimmed(hex_str) ==
    IF str_len(trim(hex_str)) % 2 = 1 THEN Err("LengthError", "none")
    ELSE IF ~is_ascii(trim(hex_str)) THEN Err("HexConversionError", "none")
    ELSE LET hex_trim == strip_prefix(Utf8(trim(hex_str)))
         IN  IF hex_trim.tag = "Panic" THEN Panic
             ELSE decode_pairs(hex_trim.val, 0, <<>>)

from_hex(hex_str) ==
    IF str_len(trim(hex_str)) % 2 = 1 THEN Err("LengthError", "none")
    ELSE IF ~is_ascii(hex_str) THEN Err("HexConversionError", "none")
    ELSE LET hex_trim == strip_prefix(Utf8(trim(hex_str)))
         IN  IF hex_trim.tag = "Panic" THEN Panic
             ELSE decode_pairs(hex_trim.val, 0, <<>>)

\* ------------------------------------------------------------------ state
VARIABLES
    test,       \* which call sequence is exercised: "encode", "decode", "multiple"
    pc,         \* the next call: "to_hex", "from_hex", "to_hex_multiple", "done"
    bytes,      \* argument of to_hex
    encoded,    \* String returned by to_hex
    hex_str,    \* argument of from_hex
    decoded,    \* Result returned by from_hex (or a panic)
    bytearray,  \* argument of to_hex_multiple
    hexed       \* Vec<String> returned by to_hex_multiple

vars == <<test, pc, bytes, encoded, hex_str, decoded, bytearray, hexed>>

NotCalled == [tag |-> "NotCalled", val |-> <<>>, cause |-> "none"]

\* Free-form texts, and digit strings with an optional 0x prefix inside
\* leading and trailing whitespace.
Texts == SeqsUpTo(Alphabet, MaxTextLen)
PaddedTexts ==
    {lead \o pre \o core \o trail :
        lead \in SeqsUpTo(PadAlphabet, MaxPad),
        pre \in {<<>>, <<48, 120>>},
        core \in SeqsUpTo(HexAlphabet, MaxCoreLen),
        trail \in SeqsUpTo(PadAlphabet, MaxPad)}

Slices == SeqsUpTo(ElemSample, MaxBytesLen) \cup {<<v>> : v \in 0..U8Max}
Arrays == SeqsUpTo(SeqsUpTo(InnerSample, MaxInnerLen), MaxArrayLen)

InitEncode ==
    /\ test = "encode" /\ pc = "to_hex"
    /\ bytes \in Slices
    /\ hex_str = <<>> /\ bytearray = <<>>

InitDecode ==
    /\ test = "decode" /\ pc = "from_hex"
    /\ hex_str \in Texts \cup PaddedTexts
    /\ bytes = <<>> /\ bytearray = <<>>

InitMultiple ==
    /\ test = "multiple" /\ pc = "to_hex_multiple"
    /\ bytearray \in Arrays
    /\ bytes = <<>> /\ hex_str = <<>>

Init ==
    /\ (InitEncode \/ InitDecode \/ InitMultiple)
    /\ encoded = <<>> /\ decoded = NotCalled /\ hexed = <<>>

\* to_hex(bytes).  In the encode test its result is handed to from_hex.
ToHex ==
    /\ pc = "to_hex"
    /\ encoded' = to_hex(bytes)
    /\ hex_str' = IF test = "encode" THEN to_hex(bytes) ELSE hex_str
    /\ pc' = IF test = "encode" THEN "from_hex" ELSE "done"
    /\ UNCHANGED <<test, bytes, decoded, bytearray, hexed>>

\* from_hex(hex_str).  In the decode test an Ok result is handed to to_hex.
FromHex ==
    /\ pc = "from_hex"
    /\ decoded' = from_hex(hex_str)
    /\ bytes' = IF test = "decode" /\ from_hex(hex_str).tag = "Ok"
                THEN from_hex(hex_str).val ELSE bytes
    /\ pc' = IF test = "decode" /\ from_hex(hex_str).tag = "Ok"
             THEN "to_hex" ELSE "done"
    /\ UNCHANGED <<test, encoded, hex_str, bytearray, hexed>>

\* to_hex_multiple(bytearray).
ToHexMultiple ==
    /\ pc = "to_hex_multiple"
    /\ hexed' = to_hex_multiple(bytearray)
    /\ pc' = "done"
    /\ UNCHANGED <<test, bytes, encoded, hex_str, decoded, bytearray>>

Next == ToHex \/ FromHex \/ ToHexMultiple

Spec == Init /\ [][Next]_vars

TypeOK ==
    /\ test \in {"encode", "decode", "multiple"}
    /\ pc \in {"to_hex", "from_hex", "to_hex_multiple", "done"}
    /\ decoded.tag \in {"NotCalled", "Ok", "LengthError", "HexConversionError",
                        "InvalidCharacter", "Panic"}
\* ----------------------------------------------------------------- claims
ToHexReturned ==
    \/ (test = "encode" /\ pc \in {"from_hex", "done"})
    \/ (test = "decode" /\ pc = "done" /\ decoded.tag = "Ok")
FromHexReturned == decoded.tag # "NotCalled"
ToHexMultipleReturned == test = "multiple" /\ pc = "done"

IsByteSeq(b) == \A i \in 1..Len(b) : b[i] \in 0..255
IsHexDigit(c) == c \in (48..57) \cup (97..102) \cup (65..70)
AllHexDigits(t) == \A i \in 1..Len(t) : IsHexDigit(t[i])
\* "0123456789abcdef"
DigitChars == <<48, 49, 50, 51, 52, 53, 54, 55, 56, 57, 97, 98, 99, 100, 101, 102>>
IsAsciiSpace(c) == c \in {9, 10, 11, 12, 13, 32}
RECURSIVE StripSpace(_)
StripSpace(t) ==
    IF t # <<>> /\ IsAsciiSpace(Head(t)) THEN StripSpace(Tail(t))
    ELSE IF t # <<>> /\ IsAsciiSpace(t[Len(t)]) THEN StripSpace(SubSeq(t, 1, Len(t) - 1))
    ELSE t
HasPrefix(t) == Len(t) >= 2 /\ SubSeq(t, 1, 2) = <<48, 120>>
DropPrefix(t) == IF HasPrefix(t) THEN SubSeq(t, 3, Len(t)) ELSE t
Lowered(t) == [i \in 1..Len(t) |-> IF t[i] \in 65..90 THEN t[i] + 32 ELSE t[i]]
SameOutcome(r1, r2) == r1.tag = r2.tag /\ r1.val = r2.val

\* C1: decoding the encoding of a byte sequence succeeds and gives back
\* exactly that byte sequence.
C1_RoundTrip ==
    (test = "encode" /\ pc = "done" /\ IsByteSeq(bytes))
        => (decoded.tag = "Ok" /\ decoded.val = bytes)

C1_Witness ==
    /\ test = "encode" /\ pc = "done"
    /\ bytes = <<0, 10, 255>>
    /\ hex_str = <<48, 48, 48, 97, 102, 102>>
    /\ decoded.val = bytes

\* C2 as stated: the string returned by to_hex has exactly two characters
\* per element, whatever the element type.
C2_LengthLaw_AnyType ==
    ToHexReturned => Len(encoded) = 2 * Len(bytes)

\* C2 amended: the string returned by to_hex has exactly two characters per
\* element when every element fits in 8 bits, at least two per element
\* otherwise, and is empty for an empty input.
C2_LengthLaw ==
    ToHexReturned =>
        /\ IsByteSeq(bytes) => Len(encoded) = 2 * Len(bytes)
        /\ Len(encoded) >= 2 * Len(bytes)
        /\ bytes = <<>> => encoded = <<>>

C2_Witness ==
    /\ test = "encode" /\ pc = "from_hex"
    /\ bytes = <<9, 16, 255>>
    /\ Len(encoded) = 6

\* C3: from_hex never panics: once it has returned, the result is Ok or one
\* of the three errors, for every text, multi-byte characters included.
C3_NoPanic ==
    FromHexReturned =>
        decoded.tag \in {"Ok", "LengthError", "HexConversionError", "InvalidCharacter"}

C3_Witness ==
    /\ test = "decode" /\ pc = "done"
    /\ hex_str = <<8364, 48>>
    /\ decoded.tag = "HexConversionError"

\* C4 as stated: a trimmed text with an odd number of CHARACTERS fails with
\* LengthError.
C4_OddCharacters ==
    (FromHexReturned /\ Len(trim(hex_str)) % 2 = 1) => decoded.tag = "LengthError"

\* C4 amended: a trimmed text with an odd number of UTF-8 BYTES fails with
\* LengthError, whatever else it contains; among the others a non-ASCII
\* input fails with HexConversionError, whatever else it contains; so
\* InvalidCharacter is reported only for ASCII texts of even length.
C4_ErrorPriority ==
    FromHexReturned =>
        /\ str_len(trim(hex_str)) % 2 = 1 => decoded.tag = "LengthError"
        /\ (str_len(trim(hex_str)) % 2 = 0 /\ ~is_ascii(hex_str))
              => decoded.tag = "HexConversionError"
        /\ decoded.tag = "InvalidCharacter"
              => (str_len(trim(hex_str)) % 2 = 0 /\ is_ascii(hex_str))

C4_Witness ==
    /\ test = "decode" /\ pc = "done"
    /\ hex_str = <<233, 120, 32>>
    /\ decoded.tag = "LengthError"

\* C5: an ASCII text whose trimmed, prefix-stripped part has even length
\* decodes if and only if that part consists of hexadecimal digits, and
\* fails with InvalidCharacter otherwise.
C5_StrictAcceptance ==
    (FromHexReturned /\ is_ascii(hex_str) /\ Len(DropPrefix(trim(hex_str))) % 2 = 0)
        => /\ decoded.tag = "Ok" <=> AllHexDigits(DropPrefix(trim(hex_str)))
           /\ ~AllHexDigits(DropPrefix(trim(hex_str))) => decoded.tag = "InvalidCharacter"

\* C6 as stated: with an even trimmed length, HexConversionError is the
\* result exactly when some character lies outside the code points 0..255.
C6_Guard_Latin1 ==
    (FromHexReturned /\ str_len(trim(hex_str)) % 2 = 0)
        => (decoded.tag = "HexConversionError"
                <=> \E i \in 1..Len(hex_str) : hex_str[i] > 255)

\* C6 amended: with an even trimmed length (in bytes), HexConversionError is
\* the result exactly when some character of the untrimmed input lies
\* outside the ASCII code points 0..127.
C6_Guard_Ascii ==
    (FromHexReturned /\ str_len(trim(hex_str)) % 2 = 0)
        => (decoded.tag = "HexConversionError"
                <=> \E i \in 1..Len(hex_str) : hex_str[i] > 127)

C6_Witness ==
    /\ test = "decode" /\ pc = "done"
    /\ hex_str = <<160, 48, 48>>
    /\ decoded.tag = "HexConversionError"

\* C7: a digit string decodes to the same outcome bare, inside leading and
\* trailing ASCII whitespace, and behind one 0x prefix; a second 0x is not
\* removed.
C7_PaddingInsensitive ==
    FromHexReturned =>
        /\ AllHexDigits(DropPrefix(StripSpace(hex_str)))
              => SameOutcome(decoded, from_hex(DropPrefix(StripSpace(hex_str))))
        /\ (HasPrefix(StripSpace(hex_str)) /\ HasPrefix(DropPrefix(StripSpace(hex_str))))
              => decoded.tag # "Ok"

C7_Witness ==
    /\ test = "decode" /\ pc = "done"
    /\ hex_str = <<9, 32, 48, 120, 97, 70, 32, 9>>
    /\ decoded.tag = "Ok" /\ decoded.val = <<175>>

\* C8: the string returned by to_hex for bytes holds, at positions 2i and
\* 2i+1, the lowercase digits of the high and the low nibble of byte i.
C8_EncoderResult ==
    (ToHexReturned /\ IsByteSeq(bytes)) =>
        /\ Len(encoded) = 2 * Len(bytes)
        /\ \A i \in 1..Len(bytes) :
              /\ encoded[2 * i - 1] = DigitChars[(bytes[i] \div 16) + 1]
              /\ encoded[2 * i] = DigitChars[(bytes[i] % 16) + 1]

C8_Witness ==
    /\ test = "encode" /\ pc = "from_hex"
    /\ bytes = <<10, 255, 9>>
    /\ encoded = <<48, 97, 102, 102, 48, 57>>

\* C9: to_hex_multiple returns one string per vector, in order, each the
\* to_hex of its vector.
C9_MultiplePreserves ==
    ToHexMultipleReturned =>
        /\ Len(hexed) = Len(bytearray)
        /\ \A i \in 1..Len(bytearray) :
              /\ Len(hexed[i]) = 2 * Len(bytearray[i])
              /\ \A j \in 1..Len(bytearray[i]) :
                    /\ hexed[i][2 * j - 1] = DigitChars[(bytearray[i][j] \div 16) + 1]
                    /\ hexed[i][2 * j] = DigitChars[(bytearray[i][j] % 16) + 1]

C9_Witness ==
    /\ ToHexMultipleReturned
    /\ bytearray = <<<<>>, <<255, 10>>>>
    /\ hexed = <<<<>>, <<102, 102, 48, 97>>>>

\* C10: an even-length string of digits in either case decodes as its
\* lowercased form does, and encoding the result gives the lowercased form.
C10_CaseInsensitive ==
    (test = "decode" /\ FromHexReturned /\ AllHexDigits(hex_str) /\ Len(hex_str) % 2 = 0)
        => /\ decoded.tag = "Ok"
           /\ SameOutcome(decoded, from_hex(Lowered(hex_str)))
           /\ pc = "done" =>
                 /\ encoded = Lowered(hex_str)
                 /\ encoded = hex_str <=> \A i \in 1..Len(hex_str) : ~(hex_str[i] \in 65..70)

C10_Witness ==
    /\ test = "decode" /\ pc = "done"
    /\ hex_str = <<65, 102, 48, 65>>
    /\ decoded.val = <<175, 10>>
    /\ encoded = <<97, 102, 48, 97>>
====
